---- MODULE Spec2Model ----
(***************************************************************************)
(* Model of packages/wrangler/src/cloudchamber/create.ts:                  *)
(* createCommand, askWhichSSHKeysDoTheyWantToAdd and handleCreateCommand.  *)
(* Every await of the source is a step; the collaborators' answers (the    *)
(* key fetch, the prompts, the deployment service) are inputs drawn from   *)
(* small sets.                                                             *)
(***************************************************************************)
EXTENDS Naturals, Sequences, FiniteSets

VARIABLES
    args,          \* parsed flags: allSshKeys, sshKeyId, image, location
    config,        \* config.cloudchamber: image, location
    interactive,   \* what interactWithUser(args) answers
    accountKeys,   \* the SSH key records the account holds, in listing order
    pc,            \* position in createCommand / handleCreateCommand / ask...
    calls,         \* collaborator calls made so far, in order
    fetchState,    \* pollSSHKeysUntilCondition: idle, pending, resolved, rejected
    fetchError,    \* the error the key fetch rejected with
    keyItems,      \* askWhichSSHKeysDoTheyWantToAdd: const keyItems
    sshKeyID,      \* handleCreateCommand: const sshKeyID
    options,       \* options shown by the multiselect prompt
    promptError,   \* message the multiselect validation last showed
    res,           \* askWhichSSHKeysDoTheyWantToAdd: const res
    yes,           \* answer of the last confirm prompt
    askStatus,     \* askWhichSSHKeysDoTheyWantToAdd: notcalled, running, returned, thrown
    askResult,     \* value askWhichSSHKeysDoTheyWantToAdd returned
    keysToAdd,     \* createCommand: const keysToAdd
    created,       \* ssh_public_key_ids of every createDeploymentV2 call
    createState,   \* createDeploymentV2: idle, pending, ok, failed
    thrown,        \* the error createCommand rejected with
    proceed,       \* handleCreateCommand: const yes (answer to "Proceed?")
    submitted,     \* what the user last submitted in the multiselect prompt
    confirmAnswer  \* what the user did at the add-this-key confirm prompt

vars == <<args, config, interactive, accountKeys, pc, calls, fetchState,
          fetchError, keyItems, sshKeyID, options, promptError, res, yes,
          askStatus, askResult, keysToAdd, created, createState, thrown,
          proceed, submitted, confirmAnswer>>

\* ---------------------------------------------------------------- bounds
MaxKeys == 2
MaxExplicit == 2

\* ---------------------------------------------------------------- values
Undefined == "<undefined>"

AccountIds == {"k1", "k2", "k3"}
ExplicitIds == {"k1", "k9"}
ChosenKeys == {Undefined, "", "k1", "k9"}
FetchErrors == {"ApiError", "NetworkError"}
SelectResponses == {"all", "select", "none", "other"}
ConfirmAnswers == {"yes", "no", "enter"}

SeqsUpTo(S, n) == UNION {[1..m -> S] : m \in 0..n}

InjectiveSeqs(S, n) ==
    {s \in SeqsUpTo(S, n) : \A i, j \in 1..Len(s) : i # j => s[i] # s[j]}

KeyName(id) == "name-of-" \o id

KeyRecord(id) == [id |-> id, name |-> KeyName(id)]

Count(log, S) == Cardinality({i \in 1..Len(log) : log[i] \in S})

\* ---------------------------------------------------- pure parts of the code
KeyIdsOf(items) == [i \in 1..Len(items) |-> items[i].id]

AllKeysRequestedLoose(a) == a.allSshKeys = "true" /\ ~a.sshKeyId.defined

AllKeysRequested(a) == a.allSshKeys = "true"

ExplicitKeysGiven(a) == a.sshKeyId.defined /\ Len(a.sshKeyId.value) # 0

Truthy(s) == s # Undefined /\ s # ""

ExplicitResult(a, key) ==
    IF Truthy(key) THEN Append(a.sshKeyId.value, key) ELSE a.sshKeyId.value

SingleKeyLoose(ks) == Len(ks) <= 1

SingleKey(ks) == Len(ks) = 1

Return(v) == [kind |-> "return", value |-> v, prompt |-> ""]

Prompt(p) == [kind |-> "prompt", value |-> <<>>, prompt |-> p]

AfterFetch(a, key, items) ==
    LET ks == KeyIdsOf(items) IN
    IF AllKeysRequested(a) THEN Return(ks)
    ELSE IF ExplicitKeysGiven(a) THEN Return(ExplicitResult(a, key))
    ELSE IF SingleKey(ks) THEN Prompt("confirm:addKey")
    ELSE IF Len(ks) <= 1 THEN Return(<<>>)
    ELSE Prompt("select:ssh")

ConfirmPrompt(answer, defaultValue) ==
    IF answer = "enter" THEN defaultValue ELSE answer = "yes"

AfterConfirmAlways(y, ks) == Return(ks)

AfterConfirm(y, ks) == IF y THEN Return(ks) ELSE Return(<<>>)

AfterSelectAlwaysPick(r, ks) ==
    IF r = "none" THEN Return(<<>>) ELSE Prompt("multiselect:keys")

AfterSelect(r, ks) ==
    IF r = "all" THEN Return(ks)
    ELSE IF r = "select" THEN Prompt("multiselect:keys")
    ELSE Return(<<>>)

MultiselectOptions(items) ==
    [i \in 1..Len(items) |-> [label |-> items[i].name, value |-> items[i].id]]

validateLenient(values) == Undefined

validate(values) ==
    IF Len(values) = 0 THEN "Select atleast one ssh key!" ELSE Undefined

PromptAccepts(err) == err = Undefined

\* ------------------------------------------------------------------ Init
Init ==
    /\ args \in [allSshKeys : {"true", "false", Undefined},
                 sshKeyId : [defined : {TRUE}, value : SeqsUpTo(ExplicitIds, MaxExplicit)]
                            \cup {[defined |-> FALSE, value |-> <<>>]},
                 image : {Undefined, "image"},
                 location : {Undefined, "location"}]
    /\ config \in [image : {Undefined, "image"}, location : {Undefined, "location"}]
    /\ interactive \in BOOLEAN
    /\ accountKeys \in {[i \in 1..Len(s) |-> KeyRecord(s[i])] :
                          s \in InjectiveSeqs(AccountIds, MaxKeys)}
    /\ pc = "cc_loadAccountSpinner"
    /\ calls = <<>>
    /\ fetchState = "idle"
    /\ fetchError = Undefined
    /\ keyItems = <<>>
    /\ sshKeyID = Undefined
    /\ options = <<>>
    /\ promptError = Undefined
    /\ res = Undefined
    /\ yes = FALSE
    /\ askStatus = "notcalled"
    /\ askResult = <<>>
    /\ keysToAdd = <<>>
    /\ created = <<>>
    /\ createState = "idle"
    /\ thrown = Undefined
    /\ proceed = FALSE
    /\ submitted = <<>>
    /\ confirmAnswer = Undefined

\* ------------------------------------------------------- createCommand
Throw(e) ==
    /\ thrown' = e
    /\ pc' = "rejected"

CC_loadAccountSpinner ==
    /\ pc = "cc_loadAccountSpinner"
    /\ calls' = Append(calls, "loadAccountSpinner")
    /\ pc' = "cc_interactWithUser"
    /\ UNCHANGED <<args, config, interactive, accountKeys, fetchState, fetchError,
                   keyItems, sshKeyID, options, promptError, res, yes, askStatus,
                   askResult, keysToAdd, created, createState, thrown,
                   proceed, submitted, confirmAnswer>>

CC_interactWithUser ==
    /\ pc = "cc_interactWithUser"
    /\ pc' = IF ~interactive THEN "ni_defaults" ELSE "hcc_sshPrompts"
    /\ UNCHANGED <<args, config, interactive, accountKeys, calls, fetchState,
                   fetchError, keyItems, sshKeyID, options, promptError, res, yes,
                   askStatus, askResult, keysToAdd, created, createState, thrown,
                   proceed, submitted, confirmAnswer>>

WithDefault(given, fallback) ==
    IF fallback # Undefined /\ given = Undefined THEN fallback ELSE given

NI_defaults ==
    /\ pc = "ni_defaults"
    /\ args' = [args EXCEPT !.image = WithDefault(args.image, config.image),
                            !.location = WithDefault(args.location, config.location)]
    /\ pc' = "ni_checkEverythingIsSet"
    /\ UNCHANGED <<config, interactive, accountKeys, calls, fetchState, fetchError,
                   keyItems, sshKeyID, options, promptError, res, yes, askStatus,
                   askResult, keysToAdd, created, createState, thrown,
                   proceed, submitted, confirmAnswer>>

NI_checkEverythingIsSet ==
    /\ pc = "ni_checkEverythingIsSet"
    /\ IF args.image = Undefined \/ args.location = Undefined
       THEN Throw("MissingArgument")
       ELSE pc' = "ni_parseImageName" /\ UNCHANGED thrown
    /\ UNCHANGED <<args, config, interactive, accountKeys, calls, fetchState,
                   fetchError, keyItems, sshKeyID, options, promptError, res, yes,
                   askStatus, askResult, keysToAdd, created, createState,
                   proceed, submitted, confirmAnswer>>

NI_parseImageName ==
    /\ pc = "ni_parseImageName"
    /\ \E err \in {Undefined, "InvalidImageName"} :
          IF err # Undefined
          THEN Throw(err)
          ELSE pc' = "ni_keysToAdd" /\ UNCHANGED thrown
    /\ calls' = Append(calls, "parseImageName")
    /\ UNCHANGED <<args, config, interactive, accountKeys, fetchState, fetchError,
                   keyItems, sshKeyID, options, promptError, res, yes, askStatus,
                   askResult, keysToAdd, created, createState,
                   proceed, submitted, confirmAnswer>>

NI_keysToAddWithExplicit ==
    /\ pc = "ni_keysToAdd"
    /\ IF args.allSshKeys = "true"
       THEN /\ calls' = Append(calls, "pollSSHKeysUntilCondition")
            /\ fetchState' = "pending"
            /\ pc' = "ni_awaitKeys"
            /\ UNCHANGED keysToAdd
       ELSE /\ keysToAdd' = args.sshKeyId.value
            /\ pc' = "ni_createDeployment"
            /\ UNCHANGED <<calls, fetchState>>
    /\ UNCHANGED <<args, config, interactive, accountKeys, fetchError, keyItems,
                   sshKeyID, options, promptError, res, yes, askStatus, askResult,
                   created, createState, thrown,
                   proceed, submitted, confirmAnswer>>

NI_keysToAdd ==
    /\ pc = "ni_keysToAdd"
    /\ IF args.allSshKeys = "true"
       THEN /\ calls' = Append(calls, "pollSSHKeysUntilCondition")
            /\ fetchState' = "pending"
            /\ pc' = "ni_awaitKeys"
            /\ UNCHANGED keysToAdd
       ELSE /\ keysToAdd' = <<>>
            /\ pc' = "ni_createDeployment"
            /\ UNCHANGED <<calls, fetchState>>
    /\ UNCHANGED <<args, config, interactive, accountKeys, fetchError, keyItems,
                   sshKeyID, options, promptError, res, yes, askStatus, askResult,
                   created, createState, thrown,
                   proceed, submitted, confirmAnswer>>

NI_pollResolved ==
    /\ pc = "ni_awaitKeys"
    /\ fetchState' = "resolved"
    /\ keysToAdd' = KeyIdsOf(accountKeys)
    /\ pc' = "ni_createDeployment"
    /\ UNCHANGED <<args, config, interactive, accountKeys, calls, fetchError,
                   keyItems, sshKeyID, options, promptError, res, yes, askStatus,
                   askResult, created, createState, thrown,
                   proceed, submitted, confirmAnswer>>

NI_pollRejected ==
    /\ pc = "ni_awaitKeys"
    /\ \E e \in FetchErrors :
          /\ fetchError' = e
          /\ Throw(e)
    /\ fetchState' = "rejected"
    /\ UNCHANGED <<args, config, interactive, accountKeys, calls, keyItems,
                   sshKeyID, options, promptError, res, yes, askStatus, askResult,
                   keysToAdd, created, createState,
                   proceed, submitted, confirmAnswer>>

NI_createDeployment ==
    /\ pc = "ni_createDeployment"
    /\ calls' = Append(calls, "createDeploymentV2")
    /\ created' = Append(created, keysToAdd)
    /\ createState' = "pending"
    /\ pc' = "ni_awaitCreate"
    /\ UNCHANGED <<args, config, interactive, accountKeys, fetchState, fetchError,
                   keyItems, sshKeyID, options, promptError, res, yes, askStatus,
                   askResult, keysToAdd, thrown,
                   proceed, submitted, confirmAnswer>>

NI_createResolved ==
    /\ pc = "ni_awaitCreate"
    /\ createState' = "ok"
    /\ calls' = Append(calls, "console.log")
    /\ pc' = "done"
    /\ UNCHANGED <<args, config, interactive, accountKeys, fetchState, fetchError,
                   keyItems, sshKeyID, options, promptError, res, yes, askStatus,
                   askResult, keysToAdd, created, thrown,
                   proceed, submitted, confirmAnswer>>

NI_createRejected ==
    /\ pc = "ni_awaitCreate"
    /\ createState' = "failed"
    /\ Throw("CreateError")
    /\ UNCHANGED <<args, config, interactive, accountKeys, calls, fetchState,
                   fetchError, keyItems, sshKeyID, options, promptError, res, yes,
                   askStatus, askResult, keysToAdd, created,
                   proceed, submitted, confirmAnswer>>

\* ------------------------------------- handleCreateCommand, before the keys
HCC_sshPrompts ==
    /\ pc = "hcc_sshPrompts"
    /\ \E k \in ChosenKeys : sshKeyID' = k
    /\ calls' = Append(calls, "sshPrompts")
    /\ pc' = "hcc_processArgument"
    /\ UNCHANGED <<args, config, interactive, accountKeys, fetchState, fetchError,
                   keyItems, options, promptError, res, yes, askStatus, askResult,
                   keysToAdd, created, createState, thrown,
                   proceed, submitted, confirmAnswer>>

HCC_processArgument ==
    /\ pc = "hcc_processArgument"
    /\ calls' = Append(calls, "processArgument:image")
    /\ pc' = "hcc_getLocation"
    /\ UNCHANGED <<args, config, interactive, accountKeys, fetchState, fetchError,
                   keyItems, sshKeyID, options, promptError, res, yes, askStatus,
                   askResult, keysToAdd, created, createState, thrown,
                   proceed, submitted, confirmAnswer>>

HCC_getLocation ==
    /\ pc = "hcc_getLocation"
    /\ calls' = Append(calls, "getLocation")
    /\ pc' = "ask_pollSSHKeys"
    /\ UNCHANGED <<args, config, interactive, accountKeys, fetchState, fetchError,
                   keyItems, sshKeyID, options, promptError, res, yes, askStatus,
                   askResult, keysToAdd, created, createState, thrown,
                   proceed, submitted, confirmAnswer>>

\* ------------------------------------- askWhichSSHKeysDoTheyWantToAdd
\* `return v`: the value becomes handleCreateCommand's `keys` and
\* handleCreateCommand goes on with getNetworkInput.
AskReturn(v) ==
    /\ askStatus' = "returned"
    /\ askResult' = v
    /\ pc' = "hcc_getNetworkInput"

\* inputPrompt(...) of the given kind is shown.
AskShow(p) ==
    /\ calls' = Append(calls, p)
    /\ pc' = "ask_" \o p
    /\ UNCHANGED <<askStatus, askResult>>

AskContinue(d) ==
    IF d.kind = "return"
    THEN AskReturn(d.value) /\ UNCHANGED calls
    ELSE AskShow(d.prompt)

Ask_pollSSHKeysSkipExplicit ==
    /\ pc = "ask_pollSSHKeys"
    /\ IF ExplicitKeysGiven(args) /\ ~AllKeysRequested(args)
       THEN /\ AskReturn(ExplicitResult(args, sshKeyID))
            /\ UNCHANGED <<calls, fetchState>>
       ELSE /\ askStatus' = "running"
            /\ calls' = Append(calls, "pollSSHKeysUntilCondition")
            /\ fetchState' = "pending"
            /\ pc' = "ask_awaitKeys"
            /\ UNCHANGED askResult
    /\ UNCHANGED <<args, config, interactive, accountKeys, fetchError, keyItems,
                   sshKeyID, options, promptError, res, yes, keysToAdd, created,
                   createState, thrown,
                   proceed, submitted, confirmAnswer>>

Ask_pollSSHKeys ==
    /\ pc = "ask_pollSSHKeys"
    /\ askStatus' = "running"
    /\ calls' = Append(calls, "pollSSHKeysUntilCondition")
    /\ fetchState' = "pending"
    /\ pc' = "ask_awaitKeys"
    /\ UNCHANGED <<args, config, interactive, accountKeys, fetchError, keyItems,
                   sshKeyID, options, promptError, res, yes, askResult, keysToAdd,
                   created, createState, thrown,
                   proceed, submitted, confirmAnswer>>

Ask_pollResolved ==
    /\ pc = "ask_awaitKeys"
    /\ fetchState' = "resolved"
    /\ keyItems' = accountKeys
    /\ AskContinue(AfterFetch(args, sshKeyID, keyItems'))
    /\ UNCHANGED <<args, config, interactive, accountKeys, fetchError, sshKeyID,
                   options, promptError, res, yes, keysToAdd, created, createState,
                   thrown,
                   proceed, submitted, confirmAnswer>>

Ask_pollRejectedFallback ==
    /\ pc = "ask_awaitKeys"
    /\ \E e \in FetchErrors : fetchError' = e
    /\ fetchState' = "rejected"
    /\ AskReturn(args.sshKeyId.value)
    /\ UNCHANGED <<args, config, interactive, accountKeys, calls, keyItems,
                   sshKeyID, options, promptError, res, yes, keysToAdd, created,
                   createState, thrown,
                   proceed, submitted, confirmAnswer>>

Ask_pollRejected ==
    /\ pc = "ask_awaitKeys"
    /\ \E e \in FetchErrors :
          /\ fetchError' = e
          /\ Throw(e)
    /\ fetchState' = "rejected"
    /\ askStatus' = "thrown"
    /\ UNCHANGED <<args, config, interactive, accountKeys, calls, keyItems,
                   sshKeyID, options, promptError, res, yes, askResult, keysToAdd,
                   created, createState,
                   proceed, submitted, confirmAnswer>>

Ask_confirmAnswered ==
    /\ pc = "ask_confirm:addKey"
    /\ \E answer \in ConfirmAnswers :
          /\ confirmAnswer' = answer
          /\ yes' = ConfirmPrompt(answer, FALSE)
          /\ AskContinue(AfterConfirm(yes', KeyIdsOf(keyItems)))
    /\ UNCHANGED <<args, config, interactive, accountKeys, fetchState, fetchError,
                   keyItems, sshKeyID, options, promptError, res, keysToAdd,
                   created, createState, thrown,
                   proceed, submitted>>

Ask_selectAnswered ==
    /\ pc = "ask_select:ssh"
    /\ \E r \in SelectResponses :
          /\ res' = r
          /\ LET d == AfterSelect(r, KeyIdsOf(keyItems)) IN
             /\ AskContinue(d)
             /\ options' = IF d.kind = "prompt"
                           THEN MultiselectOptions(keyItems) ELSE options
    /\ UNCHANGED <<args, config, interactive, accountKeys, fetchState, fetchError,
                   keyItems, sshKeyID, promptError, yes, keysToAdd, created,
                   createState, thrown,
                   proceed, submitted, confirmAnswer>>

Ask_multiselectSubmitted ==
    /\ pc = "ask_multiselect:keys"
    /\ \E values \in InjectiveSeqs({options[i].value : i \in 1..Len(options)},
                                   Len(options)) :
          LET err == validate(values) IN
          /\ submitted' = values
          /\ IF PromptAccepts(err)
             THEN /\ AskReturn(values)
                  /\ promptError' = Undefined
             ELSE /\ promptError' = err
                  /\ UNCHANGED <<pc, askStatus, askResult>>
    /\ UNCHANGED <<args, config, interactive, accountKeys, calls, fetchState,
                   fetchError, keyItems, sshKeyID, options, res, yes, keysToAdd,
                   created, createState, thrown,
                   proceed, confirmAnswer>>

\* -------------------------------------- handleCreateCommand, after the keys
HCC_getNetworkInput ==
    /\ pc = "hcc_getNetworkInput"
    /\ calls' = Append(calls, "getNetworkInput")
    /\ pc' = "hcc_promptForEnvironmentVariables"
    /\ UNCHANGED <<args, config, interactive, accountKeys, fetchState, fetchError,
                   keyItems, sshKeyID, options, promptError, res, yes, askStatus,
                   askResult, keysToAdd, created, createState, thrown,
                   proceed, submitted, confirmAnswer>>

HCC_promptForEnvironmentVariables ==
    /\ pc = "hcc_promptForEnvironmentVariables"
    /\ calls' = Append(calls, "promptForEnvironmentVariables")
    /\ pc' = "hcc_promptForLabels"
    /\ UNCHANGED <<args, config, interactive, accountKeys, fetchState, fetchError,
                   keyItems, sshKeyID, options, promptError, res, yes, askStatus,
                   askResult, keysToAdd, created, createState, thrown,
                   proceed, submitted, confirmAnswer>>

HCC_promptForLabels ==
    /\ pc = "hcc_promptForLabels"
    /\ calls' = Append(calls, "promptForLabels")
    /\ pc' = "hcc_loadAccount"
    /\ UNCHANGED <<args, config, interactive, accountKeys, fetchState, fetchError,
                   keyItems, sshKeyID, options, promptError, res, yes, askStatus,
                   askResult, keysToAdd, created, createState, thrown,
                   proceed, submitted, confirmAnswer>>

HCC_loadAccount ==
    /\ pc = "hcc_loadAccount"
    /\ calls' = calls \o <<"loadAccount", "renderDeploymentConfiguration",
                           "confirm:proceed">>
    /\ pc' = "hcc_proceed"
    /\ UNCHANGED <<args, config, interactive, accountKeys, fetchState, fetchError,
                   keyItems, sshKeyID, options, promptError, res, yes, askStatus,
                   askResult, keysToAdd, created, createState, thrown,
                   proceed, submitted, confirmAnswer>>

CallCreate(ks) ==
    /\ calls' = Append(calls, "createDeploymentV2")
    /\ created' = Append(created, ks)
    /\ createState' = "pending"
    /\ pc' = "hcc_awaitCreate"

HCC_proceedAnsweredAnyway ==
    /\ pc = "hcc_proceed"
    /\ \E y \in BOOLEAN : proceed' = y
    /\ CallCreate(askResult)
    /\ UNCHANGED <<args, config, interactive, accountKeys, fetchState, fetchError,
                   keyItems, sshKeyID, options, promptError, res, askStatus,
                   askResult, keysToAdd, thrown,
                   yes, submitted, confirmAnswer>>

HCC_proceedAnswered ==
    /\ pc = "hcc_proceed"
    /\ \E y \in BOOLEAN :
          /\ proceed' = y
          /\ IF ~y
             THEN /\ calls' = Append(calls, "cancel")
                  /\ pc' = "done"
                  /\ UNCHANGED <<created, createState>>
             ELSE CallCreate(askResult)
    /\ UNCHANGED <<args, config, interactive, accountKeys, fetchState, fetchError,
                   keyItems, sshKeyID, options, promptError, res, askStatus,
                   askResult, keysToAdd, thrown,
                   yes, submitted, confirmAnswer>>

HCC_createSettled ==
    /\ pc = "hcc_awaitCreate"
    /\ \E err \in {Undefined, "CreateError"} :
          IF Truthy(err)
          THEN /\ createState' = "failed"
               /\ calls' = Append(calls, "renderDeploymentMutationError")
               /\ pc' = "done"
          ELSE /\ createState' = "ok"
               /\ calls' = Append(calls, "waitForPlacement")
               /\ pc' = "hcc_waitForPlacement"
    /\ UNCHANGED <<args, config, interactive, accountKeys, fetchState, fetchError,
                   keyItems, sshKeyID, options, promptError, res, yes, askStatus,
                   askResult, keysToAdd, created, thrown,
                   proceed, submitted, confirmAnswer>>

HCC_waitForPlacement ==
    /\ pc = "hcc_waitForPlacement"
    /\ pc' = "done"
    /\ UNCHANGED <<args, config, interactive, accountKeys, calls, fetchState,
                   fetchError, keyItems, sshKeyID, options, promptError, res, yes,
                   askStatus, askResult, keysToAdd, created, createState, thrown,
                   proceed, submitted, confirmAnswer>>

\* ------------------------------------------------------------ specification
Next ==
    \/ CC_loadAccountSpinner
    \/ CC_interactWithUser
    \/ NI_defaults
    \/ NI_checkEverythingIsSet
    \/ NI_parseImageName
    \/ NI_keysToAdd
    \/ NI_pollResolved
    \/ NI_pollRejected
    \/ NI_createDeployment
    \/ NI_createResolved
    \/ NI_createRejected
    \/ HCC_sshPrompts
    \/ HCC_processArgument
    \/ HCC_getLocation
    \/ Ask_pollSSHKeys
    \/ Ask_pollResolved
    \/ Ask_pollRejected
    \/ Ask_confirmAnswered
    \/ Ask_selectAnswered
    \/ Ask_multiselectSubmitted
    \/ HCC_getNetworkInput
    \/ HCC_promptForEnvironmentVariables
    \/ HCC_promptForLabels
    \/ HCC_loadAccount
    \/ HCC_proceedAnswered
    \/ HCC_createSettled
    \/ HCC_waitForPlacement

Spec == Init /\ [][Next]_vars

\* ------------------------------------------------------------------ claims
AskPrompts == {"confirm:addKey", "select:ssh", "multiselect:keys"}

AllPrompts == AskPrompts \cup {"confirm:proceed", "sshPrompts", "processArgument:image",
                               "getLocation", "getNetworkInput",
                               "promptForEnvironmentVariables", "promptForLabels"}

AvailableIds == [i \in 1..Len(accountKeys) |-> accountKeys[i].id]

AllFlag == args.allSshKeys = "true"

ExplicitFlag == args.sshKeyId.defined /\ args.sshKeyId.value # <<>>

Fetches == Count(calls, {"pollSSHKeysUntilCondition"})

Position(call) == CHOOSE i \in 1..Len(calls) : calls[i] = call

\* C1: whenever askWhichSSHKeysDoTheyWantToAdd has returned and allSshKeys is
\* true, the result is every available key id in fetched order and no prompt
\* of the procedure was shown, whatever sshKeyId and the already-chosen key are.
C1_AllKeysFlag ==
    (askStatus = "returned" /\ AllFlag)
        => /\ askResult = AvailableIds
           /\ Count(calls, AskPrompts) = 0

C1_Witness ==
    /\ askStatus = "returned"
    /\ AllFlag
    /\ ExplicitFlag
    /\ sshKeyID = "k9"
    /\ Len(accountKeys) = MaxKeys
    /\ askResult = AvailableIds

C3_ThreeWayChoice ==
    /\ (askStatus = "returned" /\ ~AllFlag /\ ~ExplicitFlag /\ Len(accountKeys) >= 2)
        => /\ res \in SelectResponses
           /\ thrown = Undefined
           /\ res = "all" => askResult = AvailableIds
           /\ res = "none" => askResult = <<>>
           /\ res \notin {"all", "select", "none"} => askResult = <<>>
           /\ res = "select" => askResult = submitted /\ askResult # <<>>
    /\ (pc = "ask_multiselect:keys" /\ promptError # Undefined)
        => submitted = <<>> /\ askStatus = "running"

C3_Witness ==
    /\ askStatus = "returned"
    /\ ~AllFlag /\ ~ExplicitFlag
    /\ Len(accountKeys) = 2
    /\ res = "select"
    /\ askResult = <<accountKeys[2].id>>

\* C4: with no flags and exactly one available key, the yes/no confirmation is
\* asked once and the three-way choice never; yes gives the one id, no or no
\* answer gives the empty sequence.
C4_SingleKeyConfirm ==
    (askStatus = "returned" /\ ~AllFlag /\ ~ExplicitFlag /\ Len(accountKeys) = 1)
        => /\ Count(calls, {"confirm:addKey"}) = 1
           /\ Count(calls, {"select:ssh", "multiselect:keys"}) = 0
           /\ confirmAnswer \in ConfirmAnswers
           /\ askResult = IF confirmAnswer = "yes"
                          THEN <<accountKeys[1].id>> ELSE <<>>

C4_Witness ==
    /\ askStatus = "returned"
    /\ ~AllFlag /\ ~ExplicitFlag
    /\ Len(accountKeys) = 1
    /\ confirmAnswer = "enter"
    /\ askResult = <<>>

\* C5: with zero available keys and no flags no prompt of the procedure is
\* ever shown and the result is the empty sequence, with or without an
\* already-chosen key.
C5_NoKeysNoPrompt ==
    (~AllFlag /\ ~ExplicitFlag /\ Len(accountKeys) = 0)
        => /\ Count(calls, AskPrompts) = 0
           /\ askStatus = "returned" => askResult = <<>>

C5_Witness ==
    /\ askStatus = "returned"
    /\ ~AllFlag /\ ~ExplicitFlag
    /\ Len(accountKeys) = 0
    /\ sshKeyID = "k1"
    /\ askResult = <<>>

\* C6 (as claimed): at most one prompt of the procedure is shown per invocation.
C6_AtMostOnePrompt == Count(calls, AskPrompts) <= 1

\* C6 (amended): at most two prompts of the procedure are shown per invocation;
\* two only when the three-way choice was answered "select", and then they
\* are the three-way choice followed by the multiselect; the confirmation and
\* the three-way choice never both appear.
C6_AtMostTwoPrompts ==
    /\ Count(calls, AskPrompts) <= 2
    /\ Count(calls, {"confirm:addKey", "select:ssh"}) <= 1
    /\ Count(calls, {"multiselect:keys"}) <= 1
    /\ Count(calls, {"multiselect:keys"}) = 1
         => /\ res = "select"
            /\ Count(calls, {"select:ssh"}) = 1
            /\ Position("select:ssh") < Position("multiselect:keys")

C6_Witness ==
    /\ askStatus = "returned"
    /\ Count(calls, AskPrompts) = 2
    /\ res = "select"

\* C7: the key list is fetched exactly once per invocation of the procedure,
\* on every branch, and the fetch has completed before any prompt of the
\* procedure is shown.
C7_FetchOnceBeforePrompt ==
    interactive =>
        /\ Fetches <= 1
        /\ askStatus # "notcalled" => Fetches = 1
        /\ Count(calls, AskPrompts) > 0
             => /\ fetchState = "resolved"
                /\ \A i \in 1..Len(calls) :
                      calls[i] \in AskPrompts
                          => Position("pollSSHKeysUntilCondition") < i

C7_Witness ==
    /\ askStatus = "returned"
    /\ ~AllFlag /\ ExplicitFlag
    /\ Fetches = 1
    /\ fetchState = "resolved"

\* C8: when the fetch of the procedure fails, the same error reaches the caller
\* of createCommand: one fetch only, no prompt of the procedure, nothing
\* returned, no createDeploymentV2 call, and nothing runs afterwards.
C8_FetchFailurePropagates ==
    (interactive /\ fetchState = "rejected")
        => /\ thrown = fetchError
           /\ thrown \in FetchErrors
           /\ askStatus = "thrown"
           /\ pc = "rejected"
           /\ Fetches = 1
           /\ Count(calls, AskPrompts \cup {"confirm:proceed"}) = 0
           /\ created = <<>>
           /\ createState = "idle"

C8_Witness ==
    /\ interactive
    /\ fetchState = "rejected"
    /\ ExplicitFlag
    /\ thrown = "NetworkError"

\* C9: in the interactive flow createDeploymentV2 is called at most once, only
\* after the key selection returned and "Proceed?" was answered yes, with the
\* selected keys as ssh_public_key_ids; a declined confirmation creates
\* nothing; waitForPlacement is called only after a successful creation.
C9_CreateAfterProceed ==
    interactive =>
        /\ Len(created) <= 1
        /\ Count(calls, {"createDeploymentV2"}) = Len(created)
        /\ created # <<>>
             => /\ askStatus = "returned"
                /\ proceed
                /\ created[1] = askResult
                /\ Count(calls, {"confirm:proceed"}) = 1
                /\ Position("confirm:proceed") < Position("createDeploymentV2")
        /\ Count(calls, {"cancel"}) > 0 => ~proceed /\ created = <<>>
        /\ Count(calls, {"waitForPlacement"}) > 0 => createState = "ok"
        /\ createState = "failed" => Count(calls, {"waitForPlacement"}) = 0

C9_Witness ==
    /\ interactive
    /\ pc = "done"
    /\ createState = "ok"
    /\ Count(calls, {"waitForPlacement"}) = 1
    /\ Len(askResult) = 2
    /\ created = <<askResult>>

====
